---------------------------- MODULE Spec2Model ----------------------------
(***************************************************************************)
(* A model of the WebSocket adapter of message-io (src/src/adapters/ws.rs), *)
(* of the engine verbs that reach it (src/src/engine.rs) and of            *)
(* Endpoint::from_listener (src/src/network/endpoint.rs).                  *)
(*                                                                         *)
(* One accepted WebSocket Remote is followed through its life: the peer    *)
(* writes handshake bytes, frames, a FIN or a reset into the socket, the   *)
(* I/O thread runs LocalResource::accept and RemoteResource::receive, the  *)
(* application thread runs RemoteResource::send, remove and drop.          *)
(***************************************************************************)
EXTENDS Integers, Sequences, FiniteSets, TLC

\* ------------------------------------------------------------- bounds

\* Binary frames the peer sends.
MaxPeerSends == 2
\* send calls of the application thread.
MaxSends == 2
\* send calls made from inside process_data (the user callback).
MaxCbSends == 1
\* Ping frames the peer sends.
MaxPings == 1

\* ws.rs:29, 32 << 20
MAX_PAYLOAD_LEN == 33554432

\* Payload sizes a send is tried with: the largest valid one and the first
\* oversize one.
Sizes == {MAX_PAYLOAD_LEN, MAX_PAYLOAD_LEN + 1}

VARIABLES
    conn,        \* the peer's TCP connection: "none", "queued", "accepted", "rejected"
    state,       \* RemoteState: "Absent", "Handshake", "HandshakeNone", "WebSocket"
    pending,     \* PendingHandshake.pending_messages
    lock,        \* holder of RemoteResource.state's Mutex: "free", "io", "app"
    registered,  \* the Remote is in the adapter's remote register (and the poller)
    ioPc,        \* I/O thread: "poll", "receive", "process_data", "ret", "exited"
    ioData,      \* payload handed to process_data
    peekRes,     \* _peek_result of the last Binary message
    ready,       \* a readiness event for the Remote is pending in the poller
    sock,        \* bytes in the socket's receive queue, as items
    buf,         \* frames read from the socket into the WebSocket's input buffer
    events,      \* AdapterEvents emitted through the callback for the endpoint
    out,         \* payloads written to the socket by the Remote, in order
    sendLog,     \* every finished send: payload, status, state it found
    appPc,       \* application thread: "idle", "send", "spin", "panicked"
    appData,     \* payload of the send in progress
    sendCount,   \* send calls begun by the application thread
    cbSends,     \* send calls made from the callback
    peerPhase,   \* "tcp", "hs_part", "open", "bad", "closing", "closed", "reset"
    peerSent,    \* Binary frames sent by the peer
    peerPings,   \* Ping frames sent by the peer
    running,     \* NetworkEngine.thread_running
    appRemoved,  \* the application called remove on the Remote
    ctor,        \* connect / listen calls: register, poller, results
    fl,          \* Endpoint::from_listener: the last call and its result
    eintr,       \* system calls of the Remote's threads that a signal interrupted
    removeLog,   \* what each remove(id) of the application returned, in order
    eng,         \* AdapterLauncher / NetworkEngine: the vectors indexed by adapter id
    queue,       \* EventQueue: latch, immediate queue, timed heap, clock, consumer
    hsWaits,     \* Len(pending) at the receive calls that left the handshake pending
    lst,         \* LocalResource: the OS accept queue, the accept call, what it yielded
    dx           \* a connection with this adapter at both ends: per side, threads and lock

wsVars == << conn, state, pending, lock, registered, ioPc, ioData, peekRes,
             ready, sock, buf, events, out, sendLog, appPc, appData,
             sendCount, cbSends, peerPhase, peerSent, peerPings, running,
             appRemoved >>

\* What the actions of the Remote's life, of connect and listen and of
\* from_listener leave alone unless they say otherwise.
aux == << eintr, removeLog, eng, queue, hsWaits, lst, dx >>
auxButEintr == << removeLog, eng, queue, hsWaits, lst, dx >>
auxButRemoveLog == << eintr, eng, queue, hsWaits, lst, dx >>
auxButEng == << eintr, removeLog, queue, hsWaits, lst, dx >>
auxButQueue == << eintr, removeLog, eng, hsWaits, lst, dx >>
auxButHsWaits == << eintr, removeLog, eng, queue, lst, dx >>
auxButLst == << eintr, removeLog, eng, queue, hsWaits, dx >>
auxButDx == << eintr, removeLog, eng, queue, hsWaits, lst >>

vars == << wsVars, ctor, fl, aux >>

\* ------------------------------------------------------------ helpers

Item(k, n) == [k |-> k, n |-> n]

Payload(n, size) == [n |-> n, size |-> size]

NoPayload == Payload(0, 0)

Event(e, n) == [e |-> e, n |-> n]

\* The frames at the head of the socket queue that one read can return:
\* everything before a FIN or a reset.
RECURSIVE FramePrefixLen(_)
FramePrefixLen(s) ==
    IF s = <<>> \/ Head(s).k \in {"FIN", "RST"} THEN 0
    ELSE 1 + FramePrefixLen(Tail(s))

\* The connection is broken for writing once the peer has reset it.
broken == peerPhase = "reset"


\* ------------------------------------------------- tungstenite, the socket

\* MidHandshake::handshake / ws_accept on the bytes the socket holds: the
\* request is complete (Ok), still incomplete (Interrupted: WouldBlock), or
\* invalid or cut off (Failure).
RECURSIVE HandshakeRun(_)
HandshakeRun(s) ==
    IF s = <<>> THEN [res |-> "Interrupted", sock |-> s]
    ELSE IF Head(s).k = "HS_PART" THEN HandshakeRun(Tail(s))
    ELSE IF Head(s).k = "HS_END" THEN [res |-> "Ok", sock |-> Tail(s)]
    ELSE IF Head(s).k = "HS_BAD" THEN [res |-> "Failure", sock |-> Tail(s)]
    ELSE [res |-> "Failure", sock |-> s]

\* The handshake as the adapter sees it: its Ok includes writing the
\* response, which a reset connection refuses.
Handshake(s) ==
    IF HandshakeRun(s).res = "Ok" /\ broken
    THEN [res |-> "Failure", sock |-> s]
    ELSE HandshakeRun(s)

\* WebSocket::read_message: the next frame of the input buffer; with an empty
\* buffer one read of the socket, which takes the first c frames it holds
\* (a read returns what has arrived, whole frames here), or fails.
ReadMessage(b, s, c) ==
    IF b # <<>> THEN [res |-> "msg", msg |-> Head(b), buf |-> Tail(b), sock |-> s]
    ELSE IF s = <<>> THEN [res |-> "io", msg |-> Item("WouldBlock", 0), buf |-> b, sock |-> s]
    ELSE IF Head(s).k = "RST" THEN [res |-> "io", msg |-> Item("Fatal", 0), buf |-> b, sock |-> s]
    ELSE IF Head(s).k = "FIN" THEN [res |-> "proto", msg |-> Item("ResetWithoutClosingHandshake", 0), buf |-> b, sock |-> s]
    ELSE [res |-> "msg", msg |-> Head(s), buf |-> SubSeq(s, 2, c), sock |-> SubSeq(s, c + 1, Len(s))]

\* The chunk sizes one read of the socket can return.
Chunks(s) == IF FramePrefixLen(s) = 0 THEN {1} ELSE 1 .. FramePrefixLen(s)

\* The io::ErrorKind a read or a peek reports: WouldBlock on an empty queue;
\* on a connection that failed, ConnectionReset or another kind
\* (ConnectionAborted, TimedOut, ...).
ErrorKinds(e) ==
    IF e = "Fatal" THEN {"ConnectionReset", "Other"} ELSE {e}

\* web_socket.get_ref().peek(&mut [0; 0]): WouldBlock on an empty queue, the
\* pending socket error if there is one, Ok(0) otherwise (data, or a FIN).
Peek(s) ==
    IF s = <<>> THEN "WouldBlock"
    ELSE IF Head(s).k = "RST" THEN "Fatal"
    ELSE "Ok"

\* What write_message, and write_pending after a WouldBlock, can return.
WriteOutcomes(size) ==
    IF size > MAX_PAYLOAD_LEN THEN {"Capacity"}
    ELSE IF broken THEN {"Err"}
    ELSE {"Ok", "WouldBlock"}

RetryOutcome == IF broken THEN "Err" ELSE "Ok"

\* ---------------------------------------------------------------- ws.rs

\* A wrong IsEstablished: the WebSocket arm taken for a Remote still in its
\* handshake too.
IsEstablished_any(st) == st \in {"WebSocket", "Handshake"}

\* The first match arm of receive and of send: RemoteState::WebSocket.
IsEstablished(st) == st = "WebSocket"

\* A wrong io_error_to_read_status: a reset connection taken for a
\* transient condition.
io_error_to_read_status_transient(kind) ==
    IF kind \in {"WouldBlock", "ConnectionReset"} THEN "WaitNextEvent"
    ELSE "Disconnected"

\* io_error_to_read_status
io_error_to_read_status(kind) ==
    IF kind = "WouldBlock" THEN "WaitNextEvent"
    ELSE IF kind = "ConnectionReset" THEN "Disconnected"
    ELSE "Disconnected"

\* A wrong receive: process_data called with the guard still alive.
LockAtProcessData_held == "io"

\* receive, Message::Binary: drop(state) comes before process_data.
LockAtProcessData == "free"

\* A wrong send_by_socket: the frame goes out before its size is refused.
send_by_socket_queued(size, wr) ==
    [st |-> IF wr = "Ok" THEN "Sent"
            ELSE IF wr = "Capacity" THEN "MaxPacketSizeExceeded"
            ELSE "ResourceNotFound",
     wrote |-> wr \in {"Ok", "Capacity"}]

\* send_by_socket with the result wr of write_message (of the last
\* write_pending after WouldBlock): the status, and whether the frame went out.
send_by_socket(size, wr) ==
    [st |-> IF wr = "Ok" THEN "Sent"
            ELSE IF wr = "Capacity" THEN "MaxPacketSizeExceeded"
            ELSE "ResourceNotFound",
     wrote |-> wr = "Ok"]

\* send in the Handshake state: SendStatus::Sent whatever the payload.
HandshakeSendStatus(size) == "Sent"

\* receive, handshake Ok: send_by_socket for every pending message in turn,
\* its status dropped; a retry after WouldBlock ends as RetryOutcome.
FlushOutcome(size) ==
    IF size > MAX_PAYLOAD_LEN THEN "Capacity" ELSE RetryOutcome

FlushPending(q) ==
    SelectSeq(q, LAMBDA p : send_by_socket(p.size, FlushOutcome(p.size)).wrote)

LogEntry(p, st, found) == [p |-> p, st |-> st, found |-> found]

\* ----------------------------------------------------------------- Init

InitWs ==
    /\ conn = "none"
    /\ state = "Absent"
    /\ pending = <<>>
    /\ lock = "free"
    /\ registered = FALSE
    /\ ioPc = "poll"
    /\ ioData = 0
    /\ peekRes = "Ok"
    /\ ready = FALSE
    /\ sock = <<>>
    /\ buf = <<>>
    /\ events = <<>>
    /\ out = <<>>
    /\ sendLog = <<>>
    /\ appPc = "idle"
    /\ appData = NoPayload
    /\ sendCount = 0
    /\ cbSends = 0
    /\ peerPhase = "idle"
    /\ peerSent = 0
    /\ peerPings = 0
    /\ running = TRUE
    /\ appRemoved = FALSE

\* ------------------------------------------------------------- the peer

PeerVars == << conn, peerPhase, peerSent, peerPings >>
IoVars == << state, pending, lock, registered, ioPc, ioData, peekRes, buf, events, cbSends >>
AppVars == << appPc, appData, sendCount, sendLog, running, appRemoved >>

\* The TcpStream is open until its owner is dropped: the connection waits in
\* the accept queue, or the Remote is in the register, or a thread is inside
\* one of its methods with a reference taken from the register. The I/O
\* thread's exit drops the registers.
SocketOpen ==
    /\ ioPc # "exited"
    /\ \/ conn = "queued"
       \/ /\ conn = "accepted"
          /\ \/ registered
             \/ ioPc \in {"receive", "process_data", "ret"}
             \/ appPc \in {"send", "spin"}

\* Bytes arrive: the poller raises readiness for a registered source.
Arrive(item) ==
    /\ SocketOpen
    /\ sock' = Append(sock, item)
    /\ ready' = (ready \/ registered)

PeerConnect ==
    /\ peerPhase = "idle"
    /\ peerPhase' = "tcp"
    /\ conn' = "queued"
    /\ UNCHANGED << sock, ready, peerSent, peerPings, IoVars, AppVars, out, ctor, fl, aux >>

PeerHandshakePart ==
    /\ peerPhase = "tcp"
    /\ peerPhase' = "hs_part"
    /\ Arrive(Item("HS_PART", 0))
    /\ UNCHANGED << conn, peerSent, peerPings, IoVars, AppVars, out, ctor, fl, aux >>

PeerHandshakeEnd ==
    /\ peerPhase \in {"tcp", "hs_part"}
    /\ peerPhase' = "open"
    /\ Arrive(Item("HS_END", 0))
    /\ UNCHANGED << conn, peerSent, peerPings, IoVars, AppVars, out, ctor, fl, aux >>

PeerHandshakeBad ==
    /\ peerPhase \in {"tcp", "hs_part"}
    /\ peerPhase' = "bad"
    /\ Arrive(Item("HS_BAD", 0))
    /\ UNCHANGED << conn, peerSent, peerPings, IoVars, AppVars, out, ctor, fl, aux >>

PeerSend ==
    /\ peerPhase = "open"
    /\ peerSent < MaxPeerSends
    /\ peerSent' = peerSent + 1
    /\ Arrive(Item("Bin", peerSent + 1))
    /\ UNCHANGED << conn, peerPhase, peerPings, IoVars, AppVars, out, ctor, fl, aux >>

PeerPing ==
    /\ peerPhase = "open"
    /\ peerPings < MaxPings
    /\ peerPings' = peerPings + 1
    /\ Arrive(Item("Ping", 0))
    /\ UNCHANGED << conn, peerPhase, peerSent, IoVars, AppVars, out, ctor, fl, aux >>

PeerCloseFrame ==
    /\ peerPhase = "open"
    /\ peerPhase' = "closing"
    /\ Arrive(Item("Close", 0))
    /\ UNCHANGED << conn, peerSent, peerPings, IoVars, AppVars, out, ctor, fl, aux >>

PeerFin ==
    /\ peerPhase \in {"tcp", "hs_part", "bad", "open", "closing"}
    /\ peerPhase' = "closed"
    /\ Arrive(Item("FIN", 0))
    /\ UNCHANGED << conn, peerSent, peerPings, IoVars, AppVars, out, ctor, fl, aux >>

PeerReset ==
    /\ peerPhase \in {"tcp", "hs_part", "bad", "open", "closing"}
    /\ peerPhase' = "reset"
    /\ Arrive(Item("RST", 0))
    /\ UNCHANGED << conn, peerSent, peerPings, IoVars, AppVars, out, ctor, fl, aux >>

Peer ==
    \/ PeerConnect
    \/ PeerHandshakePart
    \/ PeerHandshakeEnd
    \/ PeerHandshakeBad
    \/ PeerSend
    \/ PeerPing
    \/ PeerCloseFrame
    \/ PeerFin
    \/ PeerReset

\* ------------------------------------------- the I/O thread (engine.rs 102-121)

IoFrame == << appPc, appData, sendCount, running, appRemoved, PeerVars, ctor, fl, aux >>

\* LocalResource::accept with one connection in the accept queue; the driver
\* registers the Remote it is handed and emits Added.
AcceptRemote(st, h) ==
    /\ conn' = "accepted"
    /\ state' = st
    /\ pending' = <<>>
    /\ registered' = TRUE
    /\ events' = << Event("Added", 0) >>
    /\ sock' = h.sock
    /\ ready' = (h.sock # <<>>)

IoAcceptOk ==
    /\ ioPc = "poll" /\ running /\ conn = "queued"
    /\ Handshake(sock).res = "Ok"
    /\ AcceptRemote("WebSocket", Handshake(sock))
    /\ UNCHANGED << lock, ioPc, ioData, peekRes, buf, out, sendLog, cbSends,
                    peerPhase, peerSent, peerPings, appPc, appData, sendCount,
                    running, appRemoved, ctor, fl, aux >>

IoAcceptInterrupted ==
    /\ ioPc = "poll" /\ running /\ conn = "queued"
    /\ Handshake(sock).res = "Interrupted"
    /\ AcceptRemote("Handshake", Handshake(sock))
    /\ UNCHANGED << lock, ioPc, ioData, peekRes, buf, out, sendLog, cbSends,
                    peerPhase, peerSent, peerPings, appPc, appData, sendCount,
                    running, appRemoved, ctor, fl, aux >>

IoAcceptFailure ==
    /\ ioPc = "poll" /\ running /\ conn = "queued"
    /\ Handshake(sock).res = "Failure"
    /\ conn' = "rejected"
    /\ sock' = Handshake(sock).sock
    /\ UNCHANGED << state, pending, registered, events, ready, lock, ioPc,
                    ioData, peekRes, buf, out, sendLog, cbSends, peerPhase,
                    peerSent, peerPings, appPc, appData, sendCount, running,
                    appRemoved, ctor, fl, aux >>

\* poll.process_event hands a ready id to the processor; process looks the
\* Remote up and calls receive.
IoDispatch ==
    /\ ioPc = "poll" /\ running /\ ready /\ registered
    /\ ready' = FALSE
    /\ ioPc' = "receive"
    /\ UNCHANGED << state, pending, lock, registered, ioData, peekRes, buf,
                    events, cbSends, sock, out, sendLog, IoFrame >>

\* A wrong process: a missing id taken for a disconnection.
IoDispatchMissing_removed ==
    /\ ioPc = "poll" /\ running /\ ready /\ ~registered
    /\ ready' = FALSE
    /\ events' = Append(events, Event("Removed", 0))
    /\ UNCHANGED << state, pending, lock, registered, ioPc, ioData, peekRes,
                    buf, cbSends, sock, out, sendLog, IoFrame >>

\* ... and an id that is no longer registered is skipped.
IoDispatchMissing ==
    /\ ioPc = "poll" /\ running /\ ready /\ ~registered
    /\ ready' = FALSE
    /\ UNCHANGED << state, pending, lock, registered, ioPc, ioData, peekRes,
                    buf, events, cbSends, sock, out, sendLog, IoFrame >>

\* while running.load(): the loop ends once running is false.
IoExit ==
    /\ ioPc = "poll" /\ ~running
    /\ ioPc' = "exited"
    /\ UNCHANGED << state, pending, lock, registered, ioData, peekRes, buf,
                    events, cbSends, sock, ready, out, sendLog, IoFrame >>

\* ---- receive, one turn of its loop: lock, match, unlock.

\* Ok(Message::Binary(data)): peek, drop(state), then process_data.
RecvBinary ==
    /\ ioPc = "receive" /\ lock = "free" /\ IsEstablished(state)
    /\ \E c \in Chunks(sock) :
         LET r == ReadMessage(buf, sock, c) IN
         /\ r.res = "msg" /\ r.msg.k = "Bin"
         /\ buf' = r.buf
         /\ sock' = r.sock
         /\ ioData' = r.msg.n
         /\ peekRes' = Peek(r.sock)
    /\ lock' = LockAtProcessData
    /\ ioPc' = "process_data"
    /\ UNCHANGED << state, pending, registered, events, cbSends, ready, out,
                    sendLog, IoFrame >>

\* Ok(Message::Close(_)) => break ReadStatus::Disconnected
RecvClose ==
    /\ ioPc = "receive" /\ lock = "free" /\ IsEstablished(state)
    /\ \E c \in Chunks(sock) :
         LET r == ReadMessage(buf, sock, c) IN
         /\ r.res = "msg" /\ r.msg.k = "Close"
         /\ buf' = r.buf
         /\ sock' = r.sock
    /\ ioPc' = "ret"
    /\ UNCHANGED << state, pending, lock, registered, ioData, peekRes, events,
                    cbSends, ready, out, sendLog, IoFrame >>

\* Ok(_) => continue
RecvOther ==
    /\ ioPc = "receive" /\ lock = "free" /\ IsEstablished(state)
    /\ \E c \in Chunks(sock) :
         LET r == ReadMessage(buf, sock, c) IN
         /\ r.res = "msg" /\ r.msg.k \notin {"Bin", "Close"}
         /\ buf' = r.buf
         /\ sock' = r.sock
    /\ UNCHANGED << state, pending, lock, registered, ioPc, ioData, peekRes,
                    events, cbSends, ready, out, sendLog, IoFrame >>

\* Err(Error::Io(err)) => break io_error_to_read_status(err)
RecvIoError ==
    /\ ioPc = "receive" /\ lock = "free" /\ IsEstablished(state)
    /\ LET r == ReadMessage(buf, sock, 1) IN
         /\ r.res = "io"
         /\ \E kind \in ErrorKinds(r.msg.k) :
              ioPc' = IF io_error_to_read_status(kind) = "Disconnected"
                      THEN "ret" ELSE "poll"
    /\ UNCHANGED << state, pending, lock, registered, ioData, peekRes, buf,
                    events, cbSends, sock, ready, out, sendLog, IoFrame >>

\* Err(err) => break ReadStatus::Disconnected
RecvProtocolError ==
    /\ ioPc = "receive" /\ lock = "free" /\ IsEstablished(state)
    /\ ReadMessage(buf, sock, 1).res = "proto"
    /\ ioPc' = "ret"
    /\ UNCHANGED << state, pending, lock, registered, ioData, peekRes, buf,
                    events, cbSends, sock, ready, out, sendLog, IoFrame >>

\* Handshake, Ok(web_socket): the pending messages go out, the state becomes
\* WebSocket, the loop goes on.
RecvHandshakeOk ==
    /\ ioPc = "receive" /\ lock = "free" /\ state = "Handshake"
    /\ Handshake(sock).res = "Ok"
    /\ sock' = Handshake(sock).sock
    /\ out' = out \o FlushPending(pending)
    /\ pending' = <<>>
    /\ state' = "WebSocket"
    /\ UNCHANGED << lock, registered, ioPc, ioData, peekRes, buf, events,
                    cbSends, ready, sendLog, IoFrame >>

\* A wrong Interrupted arm: the handshake put back with a new, empty
\* pending_messages.
RecvHandshakeInterrupted_emptied ==
    /\ ioPc = "receive" /\ lock = "free" /\ state = "Handshake"
    /\ Handshake(sock).res = "Interrupted"
    /\ sock' = Handshake(sock).sock
    /\ state' = "Handshake"
    /\ pending' = <<>>
    /\ ioPc' = "poll"
    /\ hsWaits' = hsWaits \cup {Len(pending)}
    /\ UNCHANGED << lock, registered, ioData, peekRes, buf, events, cbSends,
                    ready, out, sendLog, appPc, appData, sendCount, running,
                    appRemoved, PeerVars, ctor, fl, auxButHsWaits >>

\* Handshake, Err(Interrupted(mid_handshake)): put back, WaitNextEvent.
RecvHandshakeInterrupted ==
    /\ ioPc = "receive" /\ lock = "free" /\ state = "Handshake"
    /\ Handshake(sock).res = "Interrupted"
    /\ sock' = Handshake(sock).sock
    /\ state' = "Handshake"
    /\ pending' = pending
    /\ ioPc' = "poll"
    /\ hsWaits' = hsWaits \cup {Len(pending)}
    /\ UNCHANGED << lock, registered, ioData, peekRes, buf, events, cbSends,
                    ready, out, sendLog, appPc, appData, sendCount, running,
                    appRemoved, PeerVars, ctor, fl, auxButHsWaits >>

\* Handshake, Err(Failure(err)): Disconnected, with the taken handshake gone:
\* the state stays Handshake(None).
RecvHandshakeFailure ==
    /\ ioPc = "receive" /\ lock = "free" /\ state = "Handshake"
    /\ Handshake(sock).res = "Failure"
    /\ sock' = Handshake(sock).sock
    /\ state' = "HandshakeNone"
    /\ pending' = <<>>
    /\ ioPc' = "ret"
    /\ UNCHANGED << lock, registered, ioData, peekRes, buf, events, cbSends,
                    ready, out, sendLog, IoFrame >>

\* process_data, the user callback, sends on the same Remote.
IoCallbackSend ==
    /\ ioPc = "process_data" /\ lock = "free" /\ registered
    /\ cbSends < MaxCbSends
    /\ cbSends' = cbSends + 1
    /\ LET p == Payload(100 + cbSends + 1, MAX_PAYLOAD_LEN)
           r == send_by_socket(p.size, RetryOutcome) IN
         /\ out' = IF r.wrote THEN Append(out, p) ELSE out
         /\ sendLog' = Append(sendLog, LogEntry(p, r.st, state))
    /\ UNCHANGED << state, pending, lock, registered, ioPc, ioData, peekRes,
                    buf, events, sock, ready, IoFrame >>

\* process_data returns: the driver has emitted Data; then the peek result
\* decides between the next turn and a break.
IoCallbackReturn ==
    /\ ioPc = "process_data"
    /\ events' = Append(events, Event("Data", ioData))
    /\ lock' = IF lock = "io" THEN "free" ELSE lock
    /\ \E kind \in ErrorKinds(peekRes) :
         ioPc' = IF kind = "Ok" THEN "receive"
                 ELSE IF io_error_to_read_status(kind) = "Disconnected"
                 THEN "ret" ELSE "poll"
    /\ ioData' = 0
    /\ peekRes' = "Ok"
    /\ UNCHANGED << state, pending, registered, buf, cbSends, sock, ready, out,
                    sendLog, IoFrame >>

\* receive returned Disconnected: the driver removes the Remote and emits
\* Removed.
IoDisconnected ==
    /\ ioPc = "ret"
    /\ registered' = FALSE
    /\ events' = Append(events, Event("Removed", 0))
    /\ ioPc' = "poll"
    /\ UNCHANGED << state, pending, lock, ioData, peekRes, buf, cbSends, sock,
                    ready, out, sendLog, IoFrame >>

Io ==
    \/ IoAcceptOk
    \/ IoAcceptInterrupted
    \/ IoAcceptFailure
    \/ IoDispatch
    \/ IoDispatchMissing
    \/ IoExit
    \/ RecvBinary
    \/ RecvClose
    \/ RecvOther
    \/ RecvIoError
    \/ RecvProtocolError
    \/ RecvHandshakeOk
    \/ RecvHandshakeInterrupted
    \/ RecvHandshakeFailure
    \/ IoCallbackSend
    \/ IoCallbackReturn
    \/ IoDisconnected

\* ------------------------------- the application thread (engine.rs 141-159)

AppFrame == << conn, registered, ioPc, ioData, peekRes, ready, sock, buf,
               events, cbSends, peerPhase, peerSent, peerPings, ctor, fl, aux >>

\* NetworkEngine::send: the controller looks the Remote up by the endpoint's
\* id and, having found it, calls RemoteResource::send.
AppSendBegin ==
    /\ appPc = "idle" /\ state # "Absent" /\ registered
    /\ sendCount < MaxSends
    /\ sendCount' = sendCount + 1
    /\ \E size \in Sizes : appData' = Payload(sendCount + 1, size)
    /\ appPc' = "send"
    /\ UNCHANGED << state, pending, lock, out, sendLog, running, appRemoved,
                    AppFrame >>

\* ... or does not find it: ResourceNotFound.
AppSendNotFound ==
    /\ appPc = "idle" /\ state # "Absent" /\ ~registered
    /\ sendCount < MaxSends
    /\ sendCount' = sendCount + 1
    /\ \E size \in Sizes :
         sendLog' = Append(sendLog, LogEntry(Payload(sendCount + 1, size),
                                             "ResourceNotFound", "Missing"))
    /\ UNCHANGED << state, pending, lock, out, appPc, appData, running,
                    appRemoved, AppFrame >>

\* send, RemoteState::WebSocket: send_by_socket, write_message returned
\* Ok, Capacity or another error.
AppSendSocket ==
    /\ appPc = "send" /\ lock = "free" /\ IsEstablished(state)
    /\ \E wr \in WriteOutcomes(appData.size) \ {"WouldBlock"} :
         LET r == send_by_socket(appData.size, wr) IN
         /\ out' = IF r.wrote THEN Append(out, appData) ELSE out
         /\ sendLog' = Append(sendLog, LogEntry(appData, r.st, state))
    /\ appPc' = "idle"
    /\ appData' = NoPayload
    /\ UNCHANGED << state, pending, lock, sendCount, running, appRemoved,
                    AppFrame >>

\* send_by_socket, write_message returned WouldBlock: the loop retries
\* write_pending with the state lock held.
AppSendWouldBlock ==
    /\ appPc = "send" /\ lock = "free" /\ IsEstablished(state)
    /\ "WouldBlock" \in WriteOutcomes(appData.size)
    /\ lock' = "app"
    /\ appPc' = "spin"
    /\ UNCHANGED << state, pending, out, sendLog, appData, sendCount, running,
                    appRemoved, AppFrame >>

\* write_pending returned something else than WouldBlock.
AppSendRetry ==
    /\ appPc = "spin"
    /\ LET r == send_by_socket(appData.size, RetryOutcome) IN
         /\ out' = IF r.wrote THEN Append(out, appData) ELSE out
         /\ sendLog' = Append(sendLog, LogEntry(appData, r.st, state))
    /\ lock' = "free"
    /\ appPc' = "idle"
    /\ appData' = NoPayload
    /\ UNCHANGED << state, pending, sendCount, running, appRemoved, AppFrame >>

\* send, RemoteState::Handshake(Some): pending_messages.push, Sent.
AppSendHandshake ==
    /\ appPc = "send" /\ lock = "free" /\ state = "Handshake"
    /\ pending' = Append(pending, appData)
    /\ sendLog' = Append(sendLog, LogEntry(appData,
                                           HandshakeSendStatus(appData.size),
                                           state))
    /\ appPc' = "idle"
    /\ appData' = NoPayload
    /\ UNCHANGED << state, lock, out, sendCount, running, appRemoved, AppFrame >>

\* send, RemoteState::Handshake(None): handshake.as_mut().unwrap() panics.
AppSendPanic ==
    /\ appPc = "send" /\ lock = "free" /\ state = "HandshakeNone"
    /\ appPc' = "panicked"
    /\ UNCHANGED << state, pending, lock, out, sendLog, appData, sendCount,
                    running, appRemoved, AppFrame >>

\* remove(id) calls of the application thread.
MaxRemoves == 2

\* A wrong remove: it reports the Remote present and leaves it registered.
AppRemove_kept ==
    /\ appPc = "idle" /\ registered
    /\ Len(removeLog) < MaxRemoves
    /\ registered' = registered
    /\ appRemoved' = TRUE
    /\ removeLog' = Append(removeLog, TRUE)
    /\ UNCHANGED << conn, state, pending, lock, ioPc, ioData, peekRes, ready,
                    sock, buf, events, out, sendLog, appPc, appData, sendCount,
                    cbSends, peerPhase, peerSent, peerPings, running, ctor, fl,
                    auxButRemoveLog >>

\* NetworkEngine::remove: the controller takes the Remote out of the
\* register and reports that it was there.
AppRemove ==
    /\ appPc = "idle" /\ registered
    /\ Len(removeLog) < MaxRemoves
    /\ registered' = FALSE
    /\ appRemoved' = TRUE
    /\ removeLog' = Append(removeLog, TRUE)
    /\ UNCHANGED << conn, state, pending, lock, ioPc, ioData, peekRes, ready,
                    sock, buf, events, out, sendLog, appPc, appData, sendCount,
                    cbSends, peerPhase, peerSent, peerPings, running, ctor, fl,
                    auxButRemoveLog >>

\* ... or does not find the id in the register and reports that.
AppRemoveMissing ==
    /\ appPc = "idle" /\ ~registered
    /\ Len(removeLog) < MaxRemoves
    /\ removeLog' = Append(removeLog, FALSE)
    /\ UNCHANGED << wsVars, ctor, fl, auxButRemoveLog >>

\* A wrong drop: the join without the store to thread_running.
EngineDrop_no_store ==
    /\ appPc = "idle" /\ running
    /\ running' = running
    /\ appPc' = "join"
    /\ UNCHANGED << state, pending, lock, out, sendLog, appData, sendCount,
                    appRemoved, AppFrame >>

\* Drop for NetworkEngine: running = false, then join.
EngineDrop ==
    /\ appPc = "idle" /\ running
    /\ running' = FALSE
    /\ appPc' = "join"
    /\ UNCHANGED << state, pending, lock, out, sendLog, appData, sendCount,
                    appRemoved, AppFrame >>

EngineJoined ==
    /\ appPc = "join" /\ ioPc = "exited"
    /\ appPc' = "dropped"
    /\ UNCHANGED << state, pending, lock, out, sendLog, appData, sendCount,
                    running, appRemoved, AppFrame >>

App ==
    \/ AppSendBegin
    \/ AppSendNotFound
    \/ AppSendSocket
    \/ AppSendWouldBlock
    \/ AppSendRetry
    \/ AppSendHandshake
    \/ AppSendPanic
    \/ AppRemove
    \/ EngineDrop
    \/ EngineJoined

\* ------------------------------------------ interrupted system calls

\* System calls a signal interrupts in one run.
MaxSignals == 2

SignalFrame == << ctor, fl, auxButEintr >>

\* accept, self.listener.accept(): Err(Interrupted) => continue.
AcceptSignal ==
    /\ ioPc = "poll" /\ running /\ conn = "queued"
    /\ eintr < MaxSignals
    /\ eintr' = eintr + 1
    /\ UNCHANGED << wsVars, SignalFrame >>

\* receive, read_message reads the socket and the read is interrupted:
\* Err(Error::Io(err)) => break io_error_to_read_status(err).
RecvSignal ==
    /\ ioPc = "receive" /\ lock = "free" /\ IsEstablished(state)
    /\ buf = <<>>
    /\ eintr < MaxSignals
    /\ eintr' = eintr + 1
    /\ ioPc' = IF io_error_to_read_status("Interrupted") = "Disconnected"
               THEN "ret" ELSE "poll"
    /\ UNCHANGED << state, pending, lock, registered, ioData, peekRes, buf,
                    events, cbSends, sock, ready, out, sendLog, appPc, appData,
                    sendCount, running, appRemoved, PeerVars, SignalFrame >>

\* send_by_socket, write_message is interrupted: Err(Error::Io(err)) with a
\* kind that is not WouldBlock falls to the last arm.
SendSignal ==
    /\ appPc = "send" /\ lock = "free" /\ IsEstablished(state)
    /\ "Ok" \in WriteOutcomes(appData.size)
    /\ eintr < MaxSignals
    /\ eintr' = eintr + 1
    /\ LET r == send_by_socket(appData.size, "Interrupted") IN
         /\ out' = IF r.wrote THEN Append(out, appData) ELSE out
         /\ sendLog' = Append(sendLog, LogEntry(appData, r.st, state))
    /\ appPc' = "idle"
    /\ appData' = NoPayload
    /\ UNCHANGED << state, pending, lock, sendCount, running, appRemoved,
                    conn, registered, ioPc, ioData, peekRes, ready, sock, buf,
                    events, cbSends, peerPhase, peerSent, peerPings,
                    SignalFrame >>

\* ------------------------------------------------ connect and listen

\* connect and listen calls made in one run.
MaxCalls == 3
\* Turns of connect's handshake loop that meet Interrupted.
MaxSpins == 1

AddrKinds == {"Socket", "Url", "BadUrl", "NoHost"}

InitCtor ==
    ctor = [pc |-> "idle", calls |-> 0, spins |-> 0, remotes |-> {},
            listeners |-> {}, poller |-> {}, before |-> << {}, {}, {} >>,
            op |-> "none", cause |-> "none", returned |-> "none",
            results |-> <<>>]

Registers(c) == << c.remotes, c.listeners, c.poller >>

\* A call begins: what the register and the poller hold is remembered.
Begin(c, op) ==
    [c EXCEPT !.calls = c.calls + 1, !.before = Registers(c), !.op = op,
              !.spins = 0, !.cause = "none", !.returned = "none"]

\* A call returns to its caller.
Return(c, cause, returned) ==
    [c EXCEPT !.pc = "idle", !.cause = cause, !.returned = returned,
              !.results = Append(c.results, << c.op, returned >>)]

\* panic!, expect, unwrap: the calling thread unwinds.
Panic(c, cause) ==
    [c EXCEPT !.pc = "panicked", !.cause = cause, !.returned = "panic"]

CtorFrame == << wsVars, fl, aux >>

\* RemoteResource::connect, RemoteAddr::Str: Url::parse(..).expect and
\* socket_addrs(..).unwrap()[0].
ConnectBadAddr ==
    /\ ctor.pc = "idle" /\ ctor.calls < MaxCalls
    /\ \E a \in {"BadUrl", "NoHost"} :
         ctor' = Panic(Begin(ctor, "connect"),
                       IF a = "BadUrl" THEN "url" ELSE "resolve")
    /\ UNCHANGED CtorFrame

\* StdTcpStream::connect(peer_addr)? returns the error.
ConnectTcpError ==
    /\ ctor.pc = "idle" /\ ctor.calls < MaxCalls
    /\ \E a \in {"Socket", "Url"} :
         ctor' = Return(Begin(ctor, "connect"), "tcp", "IoError")
    /\ UNCHANGED CtorFrame

\* The TCP connection stands: ws_connect(url, stream), then the loop.
ConnectTcpOk ==
    /\ ctor.pc = "idle" /\ ctor.calls < MaxCalls
    /\ \E a \in {"Socket", "Url"} :
         ctor' = [Begin(ctor, "connect") EXCEPT !.pc = "handshake"]
    /\ UNCHANGED CtorFrame

\* Err(HandshakeError::Interrupted(mid)) => mid.handshake(), at once.
ConnectHandshakeInterrupted ==
    /\ ctor.pc = "handshake" /\ ctor.spins < MaxSpins
    /\ ctor' = [ctor EXCEPT !.spins = ctor.spins + 1]
    /\ UNCHANGED CtorFrame

\* Ok((web_socket, _)): ConnectionInfo; the controller adds the Remote to the
\* register, which registers its source with the poller.
ConnectHandshakeOk ==
    /\ ctor.pc = "handshake"
    /\ LET id == << "Remote", ctor.calls >> IN
         ctor' = Return([ctor EXCEPT !.remotes = ctor.remotes \cup {id},
                                     !.poller = ctor.poller \cup {id}],
                        "none", "Ok")
    /\ UNCHANGED CtorFrame

\* Err(HandshakeError::Failure(err)) => panic!("WS connect handshake error")
ConnectHandshakeFailure ==
    /\ ctor.pc = "handshake"
    /\ ctor' = Panic(ctor, "handshake")
    /\ UNCHANGED CtorFrame

\* LocalResource::listen: TcpListener::bind(addr)? returns the error.
ListenBindError ==
    /\ ctor.pc = "idle" /\ ctor.calls < MaxCalls
    /\ ctor' = Return(Begin(ctor, "listen"), "bind", "IoError")
    /\ UNCHANGED CtorFrame

\* The listener is bound: ListeningInfo; the controller adds the Local.
ListenOk ==
    /\ ctor.pc = "idle" /\ ctor.calls < MaxCalls
    /\ LET c == Begin(ctor, "listen")
           id == << "Local", c.calls >> IN
         ctor' = Return([c EXCEPT !.listeners = c.listeners \cup {id},
                                  !.poller = c.poller \cup {id}],
                        "none", "Ok")
    /\ UNCHANGED CtorFrame

NextCtor ==
    \/ ConnectBadAddr
    \/ ConnectTcpError
    \/ ConnectTcpOk
    \/ ConnectHandshakeInterrupted
    \/ ConnectHandshakeOk
    \/ ConnectHandshakeFailure
    \/ ListenBindError
    \/ ListenOk

\* ------------------------------------------- Endpoint::from_listener

\* Serial numbers and peer addresses the calls are tried with.
MaxSerial == 3
MaxAddr == 3

Transports == {"Tcp", "FramedTcp", "Udp", "Ws"}

ResourceIds ==
    [adapter : Transports, rtype : {"Local", "Remote"}, serial : 0 .. MaxSerial]

Addrs == 0 .. MaxAddr

\* Transport::is_connection_oriented
is_connection_oriented(t) == t # "Udp"

Aborted == [res |-> "abort"]

\* A wrong from_listener: the assertion on the resource type left out.
from_listener_any_type(id, addr) ==
    IF is_connection_oriented(id.adapter) THEN Aborted
    ELSE [res |-> "endpoint", resource_id |-> id, addr |-> addr]

\* Endpoint::from_listener: two assertions, then Endpoint::new.
from_listener(id, addr) ==
    IF id.rtype # "Local" THEN Aborted
    ELSE IF is_connection_oriented(id.adapter) THEN Aborted
    ELSE [res |-> "endpoint", resource_id |-> id, addr |-> addr]

InitFl == fl = [called |-> FALSE]

FromListener ==
    /\ \E id \in ResourceIds, addr \in Addrs :
         fl' = [called |-> TRUE, id |-> id, addr |-> addr,
                got |-> from_listener(id, addr)]
    /\ UNCHANGED << wsVars, ctor, aux >>

\* ------------------------------------- AdapterLauncher, the verbs' dispatch

\* Adapter ids a call is tried with: 0 .. MaxAdapterId.
MaxAdapterId == 2
\* Calls on launchers and engines in one run.
MaxEngineCalls == 4

Verbs == {"connect", "listen", "send", "remove", "local_addr"}

\* No launcher yet.
InitEngine ==
    eng = [pc |-> "none", controllers |-> <<>>, processors |-> <<>>,
           calls |-> 0, last |-> [op |-> "none"], log |-> <<>>]

\* vec[index]: the element, or the index-out-of-bounds panic.
InBounds(vec, index) == index + 1 \in 1 .. Len(vec)

\* AdapterLauncher::default(): Vec::new() for controllers and processors.
LauncherDefault ==
    /\ eng.calls < MaxEngineCalls
    /\ eng' = [pc |-> "launcher", controllers |-> <<>>, processors |-> <<>>,
               calls |-> eng.calls + 1, last |-> [op |-> "default"],
               log |-> Append(eng.log, << "default", "ok" >>)]
    /\ UNCHANGED << wsVars, ctor, fl, auxButEng >>

\* mount(adapter_id, adapter): self.controllers[index] = .., then
\* self.processors[index] = ..
mount ==
    /\ eng.pc = "launcher" /\ eng.calls < MaxEngineCalls
    /\ \E id \in 0 .. MaxAdapterId, a \in Transports :
         eng' = IF InBounds(eng.controllers, id) /\ InBounds(eng.processors, id)
                THEN [eng EXCEPT !.controllers[id + 1] = a,
                                 !.processors[id + 1] = a,
                                 !.calls = eng.calls + 1,
                                 !.log = Append(eng.log, << "mount", id >>),
                                 !.last = [op |-> "mount", id |-> id,
                                           adapter |-> a, res |-> "mounted"]]
                ELSE [eng EXCEPT !.pc = "panicked",
                                 !.calls = eng.calls + 1,
                                 !.log = Append(eng.log, << "mount", "panic" >>),
                                 !.last = [op |-> "mount", id |-> id,
                                           adapter |-> a, res |-> "panic"]]
    /\ UNCHANGED << wsVars, ctor, fl, auxButEng >>

\* NetworkEngine::new(launcher, callback): launcher.launch().
EngineNew ==
    /\ eng.pc = "launcher" /\ eng.calls < MaxEngineCalls
    /\ eng' = [eng EXCEPT !.pc = "engine", !.calls = eng.calls + 1,
                          !.log = Append(eng.log, << "new", "ok" >>),
                          !.last = [op |-> "new"]]
    /\ UNCHANGED << wsVars, ctor, fl, auxButEng >>

\* connect, listen, send, remove, local_addr:
\* self.controllers[adapter_id as usize].verb(..)
EngineVerb ==
    /\ eng.pc = "engine" /\ eng.calls < MaxEngineCalls
    /\ \E id \in 0 .. MaxAdapterId, v \in Verbs :
         eng' = IF InBounds(eng.controllers, id)
                THEN [eng EXCEPT !.calls = eng.calls + 1,
                                 !.log = Append(eng.log, << v, id >>),
                                 !.last = [op |-> v, id |-> id,
                                           adapter |-> eng.controllers[id + 1],
                                           res |-> "handled"]]
                ELSE [eng EXCEPT !.pc = "panicked",
                                 !.calls = eng.calls + 1,
                                 !.log = Append(eng.log, << v, "panic" >>),
                                 !.last = [op |-> v, id |-> id,
                                           adapter |-> "none", res |-> "panic"]]
    /\ UNCHANGED << wsVars, ctor, fl, auxButEng >>

NextEngine ==
    \/ LauncherDefault
    \/ mount
    \/ EngineNew
    \/ EngineVerb

\* ------------------------------------------------------ the EventQueue

\* Events pushed in one run, immediate and timed.
MaxPushes == 3
\* The clock runs from 0 to MaxTime.
MaxTime == 2
\* The longest duration of a timed signal.
MaxDelay == 1
\* The sampling timeout of pop_event, in clock ticks.
SamplingWindow == 1

\* events::new_event_system(): the Start latch set, nothing queued.
InitQueue ==
    queue = [latch |-> TRUE, imm |-> <<>>, heap |-> {}, now |-> 0, pushed |-> 0,
         pc |-> "idle", since |-> 0, popped |-> <<>>]

QueueFrame == << wsVars, ctor, fl, auxButQueue >>

\* The two events the queue makes itself; they carry no push sequence.
Start == [k |-> "Start", n |-> 0, deadline |-> 0]

Idle == [k |-> "Idle", n |-> 0, deadline |-> 0]

\* The timed signals whose deadline has come.
Ripe(heap, now) == {s \in heap : s.deadline <= now}

\* A wrong First: the heap ordered by push sequence alone.
First_by_push(S) ==
    CHOOSE s \in S : \A r \in S : s.n <= r.n

\* The first of a set of timed signals: by deadline, ties by push sequence.
First(S) ==
    CHOOSE s \in S : \A r \in S :
        s.deadline < r.deadline \/ (s.deadline = r.deadline /\ s.n <= r.n)

\* pop_event, step 2: the ripe timed signals in deadline order.
RECURSIVE InDeadlineOrder(_)
InDeadlineOrder(S) ==
    IF S = {} THEN <<>>
    ELSE << First(S) >> \o InDeadlineOrder(S \ {First(S)})

Transferred(qq) ==
    [qq EXCEPT !.imm = qq.imm \o InDeadlineOrder(Ripe(qq.heap, qq.now)),
               !.heap = qq.heap \ Ripe(qq.heap, qq.now)]

\* pop_event returns e.
Popped(qq, e) ==
    [qq EXCEPT !.pc = "idle", !.since = 0,
               !.popped = Append(qq.popped, [e |-> e, at |-> qq.now])]

\* A wrong push_signal: the signal enters at the head of the queue.
push_signal_front ==
    /\ queue.pushed < MaxPushes
    /\ queue' = [queue EXCEPT !.pushed = queue.pushed + 1,
                      !.imm = << [k |-> "Signal", n |-> queue.pushed + 1,
                                  deadline |-> queue.now] >> \o queue.imm]
    /\ UNCHANGED QueueFrame

\* push_signal(s), from the application thread.
push_signal ==
    /\ queue.pushed < MaxPushes
    /\ queue' = [queue EXCEPT !.pushed = queue.pushed + 1,
                      !.imm = Append(queue.imm, [k |-> "Signal", n |-> queue.pushed + 1,
                                             deadline |-> queue.now])]
    /\ UNCHANGED QueueFrame

\* push_network(ep, event), from the I/O thread's callback.
push_network ==
    /\ queue.pushed < MaxPushes
    /\ queue' = [queue EXCEPT !.pushed = queue.pushed + 1,
                      !.imm = Append(queue.imm, [k |-> "Network", n |-> queue.pushed + 1,
                                             deadline |-> queue.now])]
    /\ UNCHANGED QueueFrame

\* push_timed_signal(s, duration): into the heap at now + duration.
push_timed_signal ==
    /\ queue.pushed < MaxPushes
    /\ \E d \in 0 .. MaxDelay :
         queue' = [queue EXCEPT !.pushed = queue.pushed + 1,
                        !.heap = queue.heap \cup {[k |-> "Timed", n |-> queue.pushed + 1,
                                               deadline |-> queue.now + d]}]
    /\ UNCHANGED QueueFrame

\* The monotonic clock.
Tick ==
    /\ queue.now < MaxTime
    /\ queue' = [queue EXCEPT !.now = queue.now + 1]
    /\ UNCHANGED QueueFrame

\* A wrong step 1: Start is returned and the latch stays set.
PopStart_kept ==
    /\ queue.pc = "idle" /\ queue.latch
    /\ queue' = Popped(queue, Start)
    /\ UNCHANGED QueueFrame

\* pop_event, step 1: the latch is set: clear it and return Start.
PopStart ==
    /\ queue.pc = "idle" /\ queue.latch
    /\ queue' = Popped([queue EXCEPT !.latch = FALSE], Start)
    /\ UNCHANGED QueueFrame

\* pop_event, steps 2 and 3: transfer, then the head of the immediate queue;
\* the same when the blocked consumer is woken by a push or by a deadline.
PopEvent ==
    /\ queue.pc \in {"idle", "blocked"} /\ ~queue.latch
    /\ Transferred(queue).imm # <<>>
    /\ queue' = Popped([Transferred(queue) EXCEPT !.imm = Tail(Transferred(queue).imm)],
                   Head(Transferred(queue).imm))
    /\ UNCHANGED QueueFrame

\* pop_event, step 4: nothing to return, the consumer blocks.
PopBlock ==
    /\ queue.pc = "idle" /\ ~queue.latch
    /\ Transferred(queue).imm = <<>>
    /\ queue' = [queue EXCEPT !.pc = "blocked", !.since = queue.now]
    /\ UNCHANGED QueueFrame

\* A wrong step 4 (c): Idle whenever the sampling timeout elapsed, whatever
\* has arrived meanwhile.
PopIdle_eager ==
    /\ queue.pc = "blocked"
    /\ queue.now >= queue.since + SamplingWindow
    /\ queue' = Popped(queue, Idle)
    /\ UNCHANGED QueueFrame

\* pop_event, step 4 (c): the sampling timeout elapsed with nothing else to
\* pop: Idle.
PopIdle ==
    /\ queue.pc = "blocked"
    /\ queue.now >= queue.since + SamplingWindow
    /\ Transferred(queue).imm = <<>>
    /\ queue' = Popped(queue, Idle)
    /\ UNCHANGED QueueFrame

NextQueue ==
    \/ push_signal
    \/ push_network
    \/ push_timed_signal
    \/ Tick
    \/ PopStart
    \/ PopEvent
    \/ PopBlock
    \/ PopIdle

\* ------------------------------------------ the listener's accept loop

\* Connections made to the listener.
MaxConns == 3
\* accept system calls of the listener that a signal interrupts.
MaxAcceptSignals == 1

\* What accept() and ws_accept will find for a connection: the whole
\* request has arrived ("Ok"), part of it or nothing ("Interrupted"), an
\* invalid one ("Failure"), or the connection was aborted while it waited in
\* the accept queue ("Aborted": accept() fails with ConnectionAborted).
ConnKinds == {"Ok", "Interrupted", "Failure", "Aborted"}

\* LocalResource::listen: a bound listener, nothing queued.
InitListener ==
    lst = [os |-> <<>>, ready |-> FALSE, pc |-> "poll", conns |-> 0,
           signals |-> 0, taken |-> <<>>, remotes |-> <<>>, added |-> <<>>,
           returned |-> <<>>]

ListenerFrame == << wsVars, ctor, fl, auxButLst >>

\* A peer connects: the connection waits in the OS accept queue and the
\* listener becomes ready.
ListenerConnect ==
    /\ lst.conns < MaxConns
    /\ \E hs \in ConnKinds :
         lst' = [lst EXCEPT !.conns = lst.conns + 1,
                            !.os = Append(lst.os, [id |-> lst.conns + 1, hs |-> hs]),
                            !.ready = TRUE]
    /\ UNCHANGED ListenerFrame

\* The readiness event of the listener: the processor calls accept.
ListenerDispatch ==
    /\ lst.pc = "poll" /\ lst.ready
    /\ lst' = [lst EXCEPT !.pc = "accept", !.ready = FALSE]
    /\ UNCHANGED ListenerFrame

\* The RemoteState ws_accept gives for a connection.
AcceptedState(hs) == IF hs = "Ok" THEN "WebSocket" ELSE "Handshake"

\* Ok((stream, addr)), ws_accept Ok or Err(Interrupted): accept_remote; the
\* driver registers the Remote and emits Added.
AcceptYield ==
    /\ lst.pc = "accept" /\ lst.os # <<>>
    /\ Head(lst.os).hs \in {"Ok", "Interrupted"}
    /\ lst' = [lst EXCEPT !.os = Tail(lst.os),
                          !.taken = Append(lst.taken, Head(lst.os)),
                          !.remotes = Append(lst.remotes,
                                             [id |-> Head(lst.os).id,
                                              st |-> AcceptedState(Head(lst.os).hs)]),
                          !.added = Append(lst.added, Head(lst.os).id)]
    /\ UNCHANGED ListenerFrame

\* Ok((stream, addr)), ws_accept Err(Failure): logged, no Remote; the loop
\* goes on.
AcceptHandshakeFailure ==
    /\ lst.pc = "accept" /\ lst.os # <<>>
    /\ Head(lst.os).hs = "Failure"
    /\ lst' = [lst EXCEPT !.os = Tail(lst.os),
                          !.taken = Append(lst.taken, Head(lst.os))]
    /\ UNCHANGED ListenerFrame

\* Err(WouldBlock) => break: the accept queue is empty.
AcceptWouldBlock ==
    /\ lst.pc = "accept" /\ lst.os = <<>>
    /\ lst' = [lst EXCEPT !.pc = "poll",
                          !.returned = Append(lst.returned, Len(lst.os))]
    /\ UNCHANGED ListenerFrame

\* Err(Interrupted) => continue.
AcceptRetry ==
    /\ lst.pc = "accept"
    /\ lst.signals < MaxAcceptSignals
    /\ lst' = [lst EXCEPT !.signals = lst.signals + 1]
    /\ UNCHANGED ListenerFrame

\* Err(err) => break log::error!: any other error of accept() ends the call;
\* the aborted connection is gone from the queue, the others stay.
AcceptError ==
    /\ lst.pc = "accept" /\ lst.os # <<>>
    /\ Head(lst.os).hs = "Aborted"
    /\ lst' = [lst EXCEPT !.os = Tail(lst.os),
                          !.pc = "poll",
                          !.returned = Append(lst.returned, Len(lst.os) - 1)]
    /\ UNCHANGED ListenerFrame

NextAccept ==
    \/ ListenerConnect
    \/ ListenerDispatch
    \/ AcceptYield
    \/ AcceptHandshakeFailure
    \/ AcceptWouldBlock
    \/ AcceptRetry
    \/ AcceptError

\* ------------------------------- both ends of one connection sending

\* Frames the socket buffers of one direction hold (the sender's send
\* buffer and the receiver's receive buffer together).
BufCap == 1
\* send calls of each side's application thread.
MaxDxSends == 2

Sides == {"a", "b"}

Other(s) == IF s = "a" THEN "b" ELSE "a"

\* An established WebSocket Remote at each end, nothing in flight.
InitDuplex ==
    dx = [s \in Sides |->
            [wire |-> 0, lock |-> "free", appPc |-> "idle", ioPc |-> "poll",
             sends |-> 0, done |-> 0, got |-> 0]]

DuplexFrame == << wsVars, ctor, fl, auxButDx >>

\* The application thread of side s calls send.
DuplexSendBegin(s) ==
    /\ dx[s].appPc = "idle"
    /\ dx[s].sends < MaxDxSends
    /\ dx' = [dx EXCEPT ![s].appPc = "send", ![s].sends = dx[s].sends + 1]
    /\ UNCHANGED DuplexFrame

\* send: the lock, then send_by_socket, write_message: Ok => Sent when the
\* buffers take the frame, WouldBlock otherwise, and then the loop runs with
\* the lock held.
DuplexWriteMessage(s) ==
    /\ dx[s].appPc = "send" /\ dx[s].lock = "free"
    /\ dx' = IF dx[s].wire < BufCap
             THEN [dx EXCEPT ![s].wire = dx[s].wire + 1,
                             ![s].appPc = "idle",
                             ![s].done = dx[s].done + 1]
             ELSE [dx EXCEPT ![s].lock = "app", ![s].appPc = "spin"]
    /\ UNCHANGED DuplexFrame

\* The loop of send_by_socket: result = web_socket.write_pending(); Ok once
\* the peer has read, WouldBlock again until then.
DuplexWritePending(s) ==
    /\ dx[s].appPc = "spin"
    /\ dx' = IF dx[s].wire < BufCap
             THEN [dx EXCEPT ![s].wire = dx[s].wire + 1,
                             ![s].lock = "free",
                             ![s].appPc = "idle",
                             ![s].done = dx[s].done + 1]
             ELSE dx
    /\ UNCHANGED DuplexFrame

\* The readiness event of side s: frames of the peer wait in its socket.
DuplexDispatch(s) ==
    /\ dx[s].ioPc = "poll"
    /\ dx[Other(s)].wire > 0
    /\ dx' = [dx EXCEPT ![s].ioPc = "receive"]
    /\ UNCHANGED DuplexFrame

\* receive, one turn of its loop: the lock, read_message, and the lock is
\* dropped; a frame is taken from the socket, or WouldBlock ends the call.
DuplexReceive(s) ==
    /\ dx[s].ioPc = "receive" /\ dx[s].lock = "free"
    /\ dx' = IF dx[Other(s)].wire > 0
             THEN [dx EXCEPT ![Other(s)].wire = dx[Other(s)].wire - 1,
                             ![s].got = dx[s].got + 1]
             ELSE [dx EXCEPT ![s].ioPc = "poll"]
    /\ UNCHANGED DuplexFrame

DuplexApp(s) ==
    \/ DuplexSendBegin(s)
    \/ DuplexWriteMessage(s)
    \/ DuplexWritePending(s)

DuplexIo(s) ==
    \/ DuplexDispatch(s)
    \/ DuplexReceive(s)

NextDuplex == \E s \in Sides : DuplexApp(s) \/ DuplexIo(s)

\* ------------------------------------------------------- specifications

InitAux ==
    /\ eintr = 0
    /\ removeLog = <<>>
    /\ InitEngine
    /\ InitQueue
    /\ hsWaits = {}
    /\ InitListener
    /\ InitDuplex

Init == InitWs /\ InitCtor /\ InitFl /\ InitAux

Next == Peer \/ Io \/ App

\* The accepted WebSocket Remote, its peer, the two threads.
Spec == Init /\ [][Next]_vars

\* The receiving side of the Remote: the peer, the I/O thread, and of the
\* application's verbs those that end the Remote's life. No send is made.
NextRecv ==
    \/ Peer
    \/ IoAcceptOk
    \/ IoAcceptInterrupted
    \/ IoAcceptFailure
    \/ IoDispatch
    \/ IoDispatchMissing
    \/ IoExit
    \/ RecvBinary
    \/ RecvClose
    \/ RecvOther
    \/ RecvIoError
    \/ RecvProtocolError
    \/ RecvHandshakeOk
    \/ RecvHandshakeInterrupted
    \/ RecvHandshakeFailure
    \/ IoCallbackReturn
    \/ IoDisconnected
    \/ AppRemove
    \/ EngineDrop
    \/ EngineJoined

SpecRecv == Init /\ [][NextRecv]_vars

\* The same, with the I/O thread scheduled: it is an operating-system thread
\* that runs its loop until running is false.
SpecRecvLive == SpecRecv /\ WF_vars(Io)

\* The sending side: the application's sends against the handshake and the
\* end of the connection. The peer sends no frames.
NextSend ==
    \/ PeerConnect
    \/ PeerHandshakePart
    \/ PeerHandshakeEnd
    \/ PeerHandshakeBad
    \/ PeerFin
    \/ PeerReset
    \/ IoAcceptOk
    \/ IoAcceptInterrupted
    \/ IoAcceptFailure
    \/ IoDispatch
    \/ IoDispatchMissing
    \/ IoExit
    \/ RecvIoError
    \/ RecvProtocolError
    \/ RecvHandshakeOk
    \/ RecvHandshakeInterrupted
    \/ RecvHandshakeFailure
    \/ IoDisconnected
    \/ App

SpecSend == Init /\ [][NextSend]_vars

\* The callback: frames arrive on an open connection while the application
\* thread sends, and process_data sends too.
NextCallback ==
    \/ PeerConnect
    \/ PeerHandshakeEnd
    \/ PeerSend
    \/ IoAcceptOk
    \/ IoAcceptInterrupted
    \/ IoDispatch
    \/ RecvBinary
    \/ RecvIoError
    \/ RecvHandshakeOk
    \/ IoCallbackSend
    \/ IoCallbackReturn
    \/ AppSendBegin
    \/ AppSendSocket
    \/ AppSendWouldBlock
    \/ AppSendRetry
    \/ AppSendHandshake

SpecCallback == Init /\ [][NextCallback]_vars

\* The sending side with the I/O thread scheduled.
SpecHandshake == SpecSend /\ WF_vars(Io)

\* The same, and the join of drop returns once the I/O thread has ended.
SpecDrop == SpecRecv /\ WF_vars(Io) /\ WF_vars(EngineJoined)

\* remove against the I/O thread and against send.
NextRemove ==
    \/ PeerConnect
    \/ PeerHandshakeEnd
    \/ PeerSend
    \/ PeerFin
    \/ IoAcceptOk
    \/ IoAcceptInterrupted
    \/ IoDispatch
    \/ IoDispatchMissing
    \/ RecvBinary
    \/ RecvIoError
    \/ RecvProtocolError
    \/ RecvHandshakeOk
    \/ RecvHandshakeFailure
    \/ IoCallbackReturn
    \/ IoDisconnected
    \/ AppSendBegin
    \/ AppSendNotFound
    \/ AppSendSocket
    \/ AppSendWouldBlock
    \/ AppSendRetry
    \/ AppSendHandshake
    \/ AppSendPanic
    \/ AppRemove
    \/ AppRemoveMissing

SpecRemove == Init /\ [][NextRemove]_vars

\* An open connection whose system calls a signal may interrupt.
NextSignals ==
    \/ PeerConnect
    \/ PeerHandshakeEnd
    \/ PeerSend
    \/ IoAcceptOk
    \/ IoDispatch
    \/ IoDispatchMissing
    \/ RecvBinary
    \/ RecvIoError
    \/ IoCallbackReturn
    \/ IoDisconnected
    \/ AppSendBegin
    \/ AppSendNotFound
    \/ AppSendSocket
    \/ AppSendWouldBlock
    \/ AppSendRetry
    \/ AcceptSignal
    \/ RecvSignal
    \/ SendSignal

SpecSignals == Init /\ [][NextSignals]_vars

\* The launcher and the engine's dispatch by adapter id.
SpecEngine == Init /\ [][NextEngine]_vars

\* The EventQueue: producers, the clock, the one consumer.
SpecQueue == Init /\ [][NextQueue]_vars

\* Both ends of a connection, every thread of both scheduled.
SpecDuplex ==
    /\ Init /\ [][NextDuplex]_vars
    /\ \A s \in Sides : WF_vars(DuplexApp(s)) /\ WF_vars(DuplexIo(s))

\* The listener: peers connect while the I/O thread accepts.
SpecAccept == Init /\ [][NextAccept]_vars

\* connect and listen.
SpecConnect == Init /\ [][NextCtor]_vars

\* Endpoint::from_listener.
SpecEndpoint == Init /\ [][FromListener]_vars


\* ================================================================ claims

EventKinds(s) == [i \in 1 .. Len(s) |-> s[i].e]

Emitted(kind) == \E i \in 1 .. Len(events) : events[i].e = kind

CountEmitted(kind) == Cardinality({i \in 1 .. Len(events) : events[i].e = kind})

\* C1: the events emitted for an endpoint are Added, then Data, then at most
\* one Removed: Added is the first event and only the first, a Removed is
\* the last event, and no Data has been emitted while the Remote is still in
\* its handshake (or has left it by failing).
C1_EventOrder ==
    /\ \A i \in 1 .. Len(events) :
         /\ events[i].e \in {"Added", "Data", "Removed"}
         /\ (events[i].e = "Added") <=> (i = 1)
         /\ events[i].e = "Removed" => i = Len(events)
    /\ state \in {"Absent", "Handshake", "HandshakeNone"} => ~Emitted("Data")
    /\ ioPc = "process_data" => (state = "WebSocket" /\ ~Emitted("Removed"))

C1_Witness ==
    EventKinds(events) = << "Added", "Data", "Data", "Removed" >>

AtMostOneRemoved ==
    /\ CountEmitted("Removed") <= 1
    /\ Emitted("Removed") => (~registered /\ Emitted("Added"))

\* The connection of an endpoint that got its Added has ended: the peer has
\* closed or reset it, or its handshake has failed.
ConnectionEnded ==
    /\ conn = "accepted"
    /\ (peerPhase \in {"closed", "reset"} \/ state = "HandshakeNone")

Delivered == SelectSeq(events, LAMBDA e : e.e = "Data")

C3_NothingLeftBehind ==
    /\ \A i \in 1 .. Len(Delivered) : Delivered[i].n = i
    /\ ( /\ registered /\ running /\ state = "WebSocket"
         /\ ioPc = "poll" /\ ~ready )
       => (buf = <<>> /\ Len(Delivered) = peerSent)

SentPayloads == [i \in 1 .. Len(SelectSeq(sendLog, LAMBDA e : e.st = "Sent")) |->
                    SelectSeq(sendLog, LAMBDA e : e.st = "Sent")[i].p]

\* C4: a send in the Handshake state queues the payload, returns Sent and
\* writes nothing; once the handshake has completed, what has been written
\* is every payload a send returned Sent for, in the order of the sends, the
\* queued ones first.
C4_QueuedSendsWrittenInOrder ==
    /\ state = "Handshake" => (out = <<>> /\ pending = SentPayloads)
    /\ state = "WebSocket" => out = SentPayloads

\* C5: send never panics: it returns a SendStatus in every state it can
\* find the Remote in.
C5_SendNeverPanics == appPc # "panicked"

\* C6: the state lock is not held by the I/O thread while process_data
\* runs, so a send from the callback can take it.
C6_NoLockAcrossCallback == ioPc = "process_data" => lock # "io"

C6_Witness ==
    /\ ioPc = "process_data"
    /\ cbSends = 1
    /\ sendLog # <<>>
    /\ sendLog[Len(sendLog)].p.n > 100
    /\ sendLog[Len(sendLog)].st = "Sent"

\* C7: a failed bind, TCP connect or WebSocket handshake is returned as an
\* I/O error, and the register and the poller hold what they held before.
C7_ConstructionFailuresReturned ==
    ctor.cause \in {"bind", "tcp", "handshake"}
        => (ctor.returned = "IoError" /\ Registers(ctor) = ctor.before)

\* C8: from_listener gives an endpoint, made of the id and the address it was
\* given, exactly for a Local id of an adapter that is not connection
\* oriented; for every other id it aborts.
C8_FromListener ==
    fl.called =>
        IF fl.id.rtype = "Local" /\ ~is_connection_oriented(fl.id.adapter)
        THEN fl.got = [res |-> "endpoint", resource_id |-> fl.id, addr |-> fl.addr]
        ELSE fl.got = Aborted

C8_Witness ==
    /\ fl.called
    /\ fl.id.rtype = "Local" /\ fl.id.adapter = "Udp"
    /\ fl.got.res = "endpoint"

\* C9: a send of more than MAX_PAYLOAD_LEN bytes that finds the Remote, in
\* the Handshake or in the WebSocket state, returns MaxPacketSizeExceeded.
C9_OversizeRejected ==
    \A i \in 1 .. Len(sendLog) :
        (sendLog[i].p.size > MAX_PAYLOAD_LEN
            /\ sendLog[i].found \in {"Handshake", "WebSocket"})
        => sendLog[i].st = "MaxPacketSizeExceeded"

ReturnsNow(st) ==
    /\ Len(sendLog') = Len(sendLog) + 1
    /\ sendLog'[Len(sendLog')].st = st

\* C10: a send that returns MaxPacketSizeExceeded changes nothing: the Remote
\* stays registered and in its state, nothing is written, queued or emitted;
\* and a later send of a valid size on the same Remote, its connection not
\* reset, returns Sent with the payload written.
C10_OversizeNotFatal ==
    [][ /\ ReturnsNow("MaxPacketSizeExceeded")
           => UNCHANGED << state, pending, registered, events, out, lock >>
        /\ ( /\ ReturnsNow("Sent") \/ ReturnsNow("ResourceNotFound")
             /\ \E i \in 1 .. Len(sendLog) : sendLog[i].st = "MaxPacketSizeExceeded"
             /\ sendLog'[Len(sendLog')].found = "WebSocket"
             /\ ~broken )
           => ( /\ ReturnsNow("Sent")
                /\ out' = Append(out, sendLog'[Len(sendLog')].p) )
      ]_vars

C10_Witness ==
    \E i, j \in 1 .. Len(sendLog) :
        /\ i < j
        /\ sendLog[i].st = "MaxPacketSizeExceeded"
        /\ sendLog[j].st = "Sent"
        /\ sendLog[j].found = "WebSocket"
        /\ registered
        /\ \E k \in 1 .. Len(out) : out[k] = sendLog[j].p

\* A read that met WouldBlock, a write that met WouldBlock, a system call
\* that a signal interrupted: the steps the transient errors are handled in.
ReadWouldBlock ==
    /\ ioPc = "receive" /\ ioPc' # "receive" /\ IsEstablished(state)
    /\ eintr' = eintr
    /\ ReadMessage(buf, sock, 1).res = "io"
    /\ ReadMessage(buf, sock, 1).msg.k = "WouldBlock"

WriteRetried == appPc = "spin" /\ appPc' = "idle" /\ ~broken

Interrupted == eintr' = eintr + 1

\* C11: transient I/O errors are never surfaced. WouldBlock ends the drain
\* loop of receive with WaitNextEvent and is retried by send until the frame
\* is written; a system call interrupted by a signal is retried: it neither
\* ends receive with Disconnected, nor removes the Remote, nor makes send
\* return a failure status.
C11_TransientNeverSurfaced ==
    [][ /\ ReadWouldBlock => (ioPc' = "poll" /\ registered' = registered)
        /\ WriteRetried => ReturnsNow("Sent")
        /\ Interrupted =>
              /\ ioPc' # "ret"
              /\ registered' = registered
              /\ Len(sendLog') > Len(sendLog) => ReturnsNow("Sent")
      ]_vars

RemoveReturns == Len(removeLog') = Len(removeLog) + 1

\* C12: remove(id) reports the resource present exactly when the register
\* holds it; when it has returned the register does not hold it, so a second
\* remove reports it missing, and every send made after a remove returns
\* ResourceNotFound.
C12_RemoveDeregisters ==
    [][ /\ RemoveReturns =>
              /\ removeLog'[Len(removeLog')] = registered
              /\ ~registered'
              /\ appRemoved => ~removeLog'[Len(removeLog')]
        /\ (appRemoved /\ Len(sendLog') > Len(sendLog))
              => ReturnsNow("ResourceNotFound")
        /\ appRemoved => ~registered'
      ]_vars

C12_Witness ==
    /\ removeLog = << TRUE, FALSE >>
    /\ sendLog # <<>>
    /\ sendLog[Len(sendLog)].st = "ResourceNotFound"
    /\ \E i \in 1 .. Len(sendLog) : sendLog[i].st = "Sent"

\* A readiness event is taken from the poller for an id the register does
\* not hold.
DispatchedMissing == ioPc = "poll" /\ ready /\ ~registered /\ ~ready'

\* C13: remove on the application thread and the processing of a readiness
\* event on the I/O thread are serialized: a readiness event dispatched for
\* a removed id is a no-op (no event emitted, no register changed, no panic,
\* the I/O thread back in poll), and a removal never takes the state lock
\* or changes the Remote under a receive in progress.
C13_RemovedIdIsNoOp ==
    [][ /\ DispatchedMissing =>
              /\ ioPc' = "poll"
              /\ UNCHANGED << events, registered, state, pending, buf, lock,
                              removeLog, sendLog, out, appPc >>
        /\ RemoveReturns =>
              UNCHANGED << ioPc, lock, state, pending, buf, events, ready >>
      ]_vars

C13_Witness ==
    /\ appRemoved /\ removeLog = << TRUE >>
    /\ peerSent = MaxPeerSends
    /\ ioPc = "poll" /\ ~ready /\ sock # <<>>
    /\ ~Emitted("Removed")

\* C14: adapters are mounted with the ids 0 .. n-1 in turn: a mount with the
\* next free id mounts the adapter; a verb with a mounted id is handled by
\* the controller mounted with that id; a verb with an id never mounted
\* aborts.
C14_DispatchByAdapterId ==
    /\ (eng.last.op = "mount" /\ eng.last.res = "panic")
          => eng.last.id # Len(eng.controllers)
    /\ (eng.last.op = "mount" /\ eng.last.res = "mounted")
          => eng.controllers[eng.last.id + 1] = eng.last.adapter
    /\ eng.last.op \in Verbs =>
          IF eng.last.id < Len(eng.controllers)
          THEN /\ eng.last.res = "handled"
               /\ eng.last.adapter = eng.controllers[eng.last.id + 1]
          ELSE eng.last.res = "panic"

\* C15: dropping the engine terminates. Once drop has stored running = false
\* and waits in join, the I/O thread leaves its loop and the join returns;
\* when drop has returned the I/O thread has ended, and no event is emitted
\* through the callback afterwards.
C15_DropTerminates ==
    /\ appPc = "join" ~> appPc = "dropped"
    /\ [](appPc = "dropped" => (ioPc = "exited" /\ ~running))
    /\ [][appPc = "dropped" => events' = events]_vars

C15_Witness ==
    /\ appPc = "dropped"
    /\ registered /\ peerPhase = "open"
    /\ Emitted("Data")
    /\ sock # <<>>


\* ------------------------------------------------- the EventQueue's order

\* The events pop_event has returned, in the order of the calls.
PoppedEvents == [i \in 1 .. Len(queue.popped) |-> queue.popped[i].e]

IsImmediate(e) == e.k \in {"Signal", "Network"}

IsTimed(e) == e.k = "Timed"

\* a comes before b in the heap's order: by deadline, ties by push sequence.
DeadlineBefore(a, b) ==
    a.deadline < b.deadline \/ (a.deadline = b.deadline /\ a.n < b.n)

\* The events pushed and not yet returned.
Waiting == {queue.imm[i] : i \in 1 .. Len(queue.imm)} \cup queue.heap

\* C16: Start is what the first pop_event returns and what no later one
\* returns, whatever was pushed before or after that first call; until the
\* first call returns the latch is set, and never after.
C16_StartFirstOnly ==
    /\ queue.latch <=> queue.popped = <<>>
    /\ \A i \in 1 .. Len(queue.popped) : (PoppedEvents[i].k = "Start") <=> (i = 1)

\* The first call returned Start at time 1 although a network event had been
\* pushed at time 0; that event and a signal were returned by later calls.
C16_Witness ==
    /\ Len(queue.popped) = 3
    /\ queue.popped[1].e.k = "Start" /\ queue.popped[1].at = 1
    /\ queue.popped[2].e.k = "Network" /\ queue.popped[2].e.deadline = 0
    /\ queue.popped[3].e.k = "Signal"

\* C17: immediate events (push_signal, push_network) are popped in push
\* order: of two that were popped the one pushed first was popped first, and
\* none still waiting was pushed before one that has been popped.
C17_ImmediateFifo ==
    /\ \A i, j \in 1 .. Len(queue.popped) :
          (i < j /\ IsImmediate(PoppedEvents[i]) /\ IsImmediate(PoppedEvents[j]))
              => PoppedEvents[i].n < PoppedEvents[j].n
    /\ \A i \in 1 .. Len(queue.popped) : \A w \in Waiting :
          (IsImmediate(PoppedEvents[i]) /\ IsImmediate(w)) => PoppedEvents[i].n < w.n

\* A network event of the I/O thread and a signal of the application thread
\* were popped in the order of their pushes, a third immediate event waits.
C17_Witness ==
    /\ \E i, j \in 1 .. Len(queue.popped) :
          /\ i < j
          /\ PoppedEvents[i].k = "Network"
          /\ PoppedEvents[j].k = "Signal"
    /\ \E w \in Waiting : IsImmediate(w)

\* C18: timed signals are popped in deadline order whatever the push order,
\* those of equal deadline in push order, none before its deadline, and none
\* still waiting comes before a popped one in that order.
C18_TimedByDeadline ==
    /\ \A i, j \in 1 .. Len(queue.popped) :
          (i < j /\ IsTimed(PoppedEvents[i]) /\ IsTimed(PoppedEvents[j]))
              => DeadlineBefore(PoppedEvents[i], PoppedEvents[j])
    /\ \A i \in 1 .. Len(queue.popped) :
          IsTimed(PoppedEvents[i]) => queue.popped[i].at >= PoppedEvents[i].deadline
    /\ \A i \in 1 .. Len(queue.popped) : \A w \in Waiting :
          (IsTimed(PoppedEvents[i]) /\ IsTimed(w)) => DeadlineBefore(PoppedEvents[i], w)

\* A timed signal pushed later with an earlier deadline was popped first, and
\* two timed signals of one deadline were popped in push order.
C18_Witness ==
    /\ \E i, j \in 1 .. Len(queue.popped) :
          /\ i < j
          /\ IsTimed(PoppedEvents[i]) /\ IsTimed(PoppedEvents[j])
          /\ PoppedEvents[i].n > PoppedEvents[j].n
          /\ PoppedEvents[i].deadline < PoppedEvents[j].deadline
    /\ \E i, j \in 1 .. Len(queue.popped) :
          /\ i < j
          /\ IsTimed(PoppedEvents[i]) /\ IsTimed(PoppedEvents[j])
          /\ PoppedEvents[i].deadline = PoppedEvents[j].deadline

\* pop_event returns Idle in this step.
ReturnsIdle ==
    /\ Len(queue'.popped) = Len(queue.popped) + 1
    /\ queue'.popped[Len(queue'.popped)].e.k = "Idle"

\* Nothing for pop_event to return: the latch cleared, the immediate queue
\* empty, no timed signal ripe.
NothingAvailable(qq) ==
    /\ ~qq.latch
    /\ qq.imm = <<>>
    /\ Ripe(qq.heap, qq.now) = {}

\* C19: pop_event returns Idle only when, before and at the return, the
\* latch is cleared, the immediate queue is empty and no timed signal is
\* ripe; so never while an event is available.
C19_IdleOnlyWhenEmpty ==
    [][ReturnsIdle => (NothingAvailable(queue) /\ NothingAvailable(queue'))]_vars

\* Idle was returned after an event, while a timed signal waited for a
\* deadline yet to come.
C19_Witness ==
    /\ Len(queue.popped) >= 3
    /\ queue.popped[Len(queue.popped)].e.k = "Idle"
    /\ queue.popped[Len(queue.popped)].at = queue.now
    /\ queue.popped[Len(queue.popped) - 1].e.k \in {"Signal", "Network", "Timed"}
    /\ queue.heap # {}
    /\ queue.pc = "idle"


\* --------------------------------------------------- the pending handshake

\* receive returns from the Handshake branch with the handshake incomplete.
HandshakeStillPending ==
    /\ ioPc = "receive" /\ ioPc' # "receive"
    /\ state = "Handshake"
    /\ Handshake(sock).res = "Interrupted"

\* C20: a receive that finds the Remote in Handshake with the handshake
\* still incomplete returns WaitNextEvent (the I/O thread is back in the
\* poll, no Disconnected), the state is still Handshake and the pending
\* payloads are what they were, nothing written, nothing emitted; the state
\* becomes WebSocket only inside a receive that a readiness event started;
\* and once the rest of the request is in the socket a later readiness event
\* completes the handshake, unless the Remote is removed, the connection is
\* reset or the engine is dropped first.
C20_HandshakeWaits ==
    /\ [][HandshakeStillPending =>
            /\ ioPc' = "poll"
            /\ state' = "Handshake"
            /\ pending' = pending
            /\ registered' = registered
            /\ out' = out
            /\ events' = events]_vars
    /\ [][(state = "Handshake" /\ state' = "WebSocket") => ioPc = "receive"]_vars
    /\ (state = "Handshake" /\ HandshakeRun(sock).res = "Ok")
          ~> (state = "WebSocket" \/ ~registered \/ broken \/ ~running)

\* A receive left the handshake pending with one payload queued, and a later
\* readiness event completed it: the payload went out, the state is WebSocket.
C20_Witness ==
    /\ hsWaits = {1}
    /\ state = "WebSocket"
    /\ pending = <<>>
    /\ Len(sendLog) = 1 /\ sendLog[1].found = "Handshake"
    /\ Len(out) = 1
    /\ registered


\* ------------------------------------------------------ the accept loop

\* The connections accept() has taken whose handshake completed or is
\* pending, as the Remotes they are to yield.
RECURSIVE RemotesOf(_)
RemotesOf(t) ==
    IF t = <<>> THEN <<>>
    ELSE IF Head(t).hs \in {"Ok", "Interrupted"}
         THEN << [id |-> Head(t).id, st |-> AcceptedState(Head(t).hs)] >>
                  \o RemotesOf(Tail(t))
         ELSE RemotesOf(Tail(t))

\* C21: on listener readiness accept drains the OS accept queue until
\* WouldBlock: every call returns with nothing it found or that arrived
\* meanwhile left in the queue; it yields exactly one Remote, with one Added,
\* per accepted connection whose handshake completed or is pending, in
\* accept order; a connection whose handshake fails yields neither.
C21_AcceptDrains ==
    /\ lst.remotes = RemotesOf(lst.taken)
    /\ lst.added = [i \in 1 .. Len(lst.remotes) |-> lst.remotes[i].id]
    /\ \A i \in 1 .. Len(lst.returned) : lst.returned[i] = 0


\* ------------------------------------------------ the empty placeholder

\* C22: while the state lock of the Remote is not held its state is never
\* Handshake(None): each path of receive that takes the pending handshake
\* puts back a WebSocket or a Handshake(Some) before it releases the lock.
C22_NeverHandshakeNone == (lock = "free") => (state # "HandshakeNone")


\* ------------------------------------------------------ the retry loop

\* C23: a send on an established Remote eventually returns a status, also
\* when both ends send at the same time with full socket buffers: no state
\* in which each side's send spins with the lock that its receive needs.
C23_SendReturns ==
    \A s \in Sides : (dx[s].appPc # "idle") ~> (dx[s].appPc = "idle")

==========================================================================
